---- MODULE Spec2Model ----
(***************************************************************************)
(* A model of the LocLock backend (app/api/links.py, app/api/admin.py,     *)
(* app/core/geo.py, app/core/middleware.py): the links, access_logs and    *)
(* blocked_ips tables, the IP-block middleware in front of every route,    *)
(* and the route handlers that read and write them.                        *)
(*                                                                         *)
(* Workers are the server processes that share the database.  A handler    *)
(* is an `async def` without an await, so inside one worker it runs from   *)
(* its query to its commit without another request of that worker in       *)
(* between; workers interleave with each other between a handler's query   *)
(* and its commit.  Every worker has its own middleware instance.          *)
(*                                                                         *)
(* Numbers.  Coordinates and distances are integers: one unit of           *)
(* latitude or longitude is the arc of one millimetre, distances are       *)
(* millimetres, radius_meters is metres as in the source.  Times are       *)
(* seconds.                                                                *)
(***************************************************************************)
EXTENDS Integers, Sequences, FiniteSets, TLC

VARIABLES
    links,        \* table links: sequence of rows, a row's id is its index
    logs,         \* table access_logs: sequence of rows
    blocked,      \* table blocked_ips: set of rows, a row is named by its ip_address
    blocked_ips,  \* IPBlockMiddleware.blocked_ips of every worker
    last_update,  \* IPBlockMiddleware.last_update of every worker
    now,          \* the clock read by time.time()
    sess,         \* the request every worker has between its query and its commit
    resp,         \* the response (or running request) of the last step
    geo,          \* arguments and result of a call of is_within_radius
    users         \* table users: sequence of rows, a row's id is its index

vars == <<links, logs, blocked, blocked_ips, last_update, now, sess, resp, geo, users>>

\* An Optional value: None, or Some(v).
None == <<>>

Some(v) == <<v>>

(***************************************************************************)
(* Bounds of the model.                                                    *)
(***************************************************************************)
NumWorkers == 2
MaxLogs == 2
MaxTicks == 2

Workers == 1..NumWorkers

(***************************************************************************)
(* Program constants and input sets.                                       *)
(***************************************************************************)
update_interval == 60

\* default_limits of the Limiter: requests per minute and address.
default_limits == 200

MM == 1000

StartTime == update_interval + 1

super_admin == "super_admin"
admin == "admin"

Users == {1, 2}

role(u) == IF u = 1 THEN super_admin ELSE admin

\* The accounts the server starts with: the super admin and an admin, both
\* active.
InitialUsers ==
    [u \in Users |->
        [username |-> IF u = 1 THEN "u1" ELSE "u2",
         email |-> IF u = 1 THEN "u1@x" ELSE "u2@x",
         role |-> role(u), is_active |-> TRUE,
         created_by |-> IF u = 1 THEN 0 ELSE 1]]

\* The most accounts the table holds.
MaxUsers == Cardinality(Users) + 1

UserIds == 1..MaxUsers

IPs == {"10.0.0.1", "10.0.0.2"}

VisitorIp == "10.0.0.1"

Codes == {"abc"}

LookupCodes == Codes \cup {"nope"}

\* LocationVerifyRequest bodies: at the centre, and 2.5 m north of it.
Locations == {[latitude |-> 0, longitude |-> 0],
              [latitude |-> 2500, longitude |-> 0]}

\* An expiry time that has passed when the server starts.
ExpireAt == StartTime - 1

(***************************************************************************)
(* app/core/geo.py                                                         *)
(***************************************************************************)
RECURSIVE SqrtSearch(_, _, _)
SqrtSearch(n, lo, hi) ==
    IF lo >= hi THEN lo
    ELSE LET mid == (lo + hi + 1) \div 2
         IN  IF mid * mid <= n THEN SqrtSearch(n, mid, hi)
             ELSE SqrtSearch(n, lo, mid - 1)

RECURSIVE SqrtAbove(_, _)
SqrtAbove(n, h) == IF h * h > n THEN h ELSE SqrtAbove(n, 2 * h)

\* sqrt of the source, on integers: the largest r with r * r <= n.
sqrt(n) == SqrtSearch(n, 0, SqrtAbove(n, 1))

\* A distance that takes the second latitude for the difference of the two.
calculate_distance_from_origin(lat1, lng1, lat2, lng2) ==
    LET dphi == lat2
        dlam == lng2 - lng1
        a == dphi * dphi + dlam * dlam
        c == sqrt(a)
    IN  c

\* The haversine distance for the short arcs of the model, in millimetres.
\* With one coordinate unit the arc of 1 mm, and cos(lat) taken as 1 (the
\* points lie at the equator), a is (dphi^2 + dlam^2) / 4 in squared arc
\* units, c is 2 * sqrt(a) and R * c is sqrt(dphi^2 + dlam^2) millimetres.
calculate_distance(lat1, lng1, lat2, lng2) ==
    LET dphi == lat2 - lat1
        dlam == lng2 - lng1
        a == dphi * dphi + dlam * dlam
        c == sqrt(a)
    IN  c

is_within_radius_strict(visitor_lat, visitor_lng, center_lat, center_lng, radius_meters) ==
    LET distance == calculate_distance(visitor_lat, visitor_lng, center_lat, center_lng)
        is_allowed == distance < radius_meters * MM
    IN  [is_allowed |-> is_allowed, distance |-> distance]

is_within_radius(visitor_lat, visitor_lng, center_lat, center_lng, radius_meters) ==
    LET distance == calculate_distance(visitor_lat, visitor_lng, center_lat, center_lng)
        is_allowed == distance <= radius_meters * MM
    IN  [is_allowed |-> is_allowed, distance |-> distance]

\* A distance in millimetres cut to whole centimetres.
round2_down(distance) == (distance \div 10) * 10

\* round(distance, 2): a distance in millimetres to the nearest centimetre,
\* a tie to the even centimetre; the result is again in millimetres.

round2(distance) ==
    LET q == distance \div 10
        r == distance % 10
    IN  IF r < 5 THEN q * 10
        ELSE IF r > 5 THEN (q + 1) * 10
        ELSE IF q % 2 = 0 THEN q * 10 ELSE (q + 1) * 10

(***************************************************************************)
(* The tables.                                                             *)
(***************************************************************************)
\* db.query(Link).filter(Link.short_code == short_code).first(): the id of
\* the row, 0 when there is none.
FindByShortCode(ls, short_code) ==
    LET hits == {i \in DOMAIN ls : ls[i].short_code = short_code}
    IN  IF hits = {} THEN 0
        ELSE CHOOSE i \in hits : \A j \in hits : i <= j

\* db.query(Link).filter(Link.id == link_id).first()
FindById(ls, link_id) == IF link_id \in DOMAIN ls THEN link_id ELSE 0

\* The access_logs rows of a link.
LogsOf(lg, link_id) == {i \in DOMAIN lg : lg[i].link_id = link_id}

\* db.query(BlockedIp.ip_address).all() as a set.
BlockedAddresses(tbl) == {row.ip_address : row \in tbl}

(***************************************************************************)
(* Responses.  Every response carries the request it answers (op, ip,      *)
(* user, and code, the short code or address of its path or body, or       *)
(* link_id, the id of its path) and the fields of the body; a field the    *)
(* body does not have is None.  status 0 is a request whose handler has    *)
(* not returned yet, detail "" a response without a detail.                *)
(***************************************************************************)
Response(op, ip, user, code, link_id, status, detail) ==
    [op |-> op, ip |-> ip, user |-> user, code |-> code,
     link_id |-> link_id, status |-> status, detail |-> detail,
     allowed |-> None, target_url |-> None, distance |-> None, radius |-> None,
     message |-> None, contact_wechat |-> None, title |-> None,
     is_active |-> None, location_name |-> None]

NoRequest == Response("none", "", 0, "", 0, 0, "")

(***************************************************************************)
(* app/core/middleware.py: IPBlockMiddleware                               *)
(***************************************************************************)
\* A reload that waits for twice the interval.
NeedsUpdateLate(p) == now - last_update[p] > 2 * update_interval

\* _update_blocked_ips: whether the cache of worker p is reloaded now.

NeedsUpdate(p) == now - last_update[p] > update_interval

\* blocked_ips of worker p after _update_blocked_ips.
CacheAfterUpdate(p) ==
    IF NeedsUpdate(p) THEN BlockedAddresses(blocked) ELSE blocked_ips[p]

_update_blocked_ips(p) ==
    /\ blocked_ips' = [blocked_ips EXCEPT ![p] = CacheAfterUpdate(p)]
    /\ last_update' = [last_update EXCEPT ![p] = IF NeedsUpdate(p) THEN now ELSE @]

\* The membership test of dispatch.
IsBlockedOpen(p, client_ip) == FALSE

IsBlocked(p, client_ip) == client_ip \in CacheAfterUpdate(p)

\* dispatch of a request whose address is not in the cache: the cache is
\* refreshed and the route handler is called.  A worker runs one request at
\* a time.
dispatch(p, client_ip) ==
    /\ sess[p].pc = "idle"
    /\ _update_blocked_ips(p)
    /\ ~IsBlocked(p, client_ip)

\* dispatch of a request whose address is in the cache: the 403 of the
\* middleware, whatever the route.
dispatch_blocked(p, client_ip, op) ==
    /\ sess[p].pc = "idle"
    /\ _update_blocked_ips(p)
    /\ IsBlocked(p, client_ip)
    /\ resp' = Response(op, client_ip, 0, "", 0, 403, "ip_blocked")
    /\ UNCHANGED <<links, logs, blocked, now, sess, geo, users>>

\* A failing load that sets last_update before its query.
dispatch_update_fails_advancing(p, client_ip, op) ==
    /\ sess[p].pc = "idle"
    /\ NeedsUpdate(p)
    /\ last_update' = [last_update EXCEPT ![p] = now]
    /\ resp' = Response(op, client_ip, 0, "", 0, 500, "refresh_failed")
    /\ UNCHANGED <<links, logs, blocked, blocked_ips, now, sess, geo, users>>

\* dispatch of a request when the query of _update_blocked_ips raises: the
\* cache and last_update keep their values, the session is closed and the
\* exception ends the request before the membership test.
dispatch_update_fails(p, client_ip, op) ==
    /\ sess[p].pc = "idle"
    /\ NeedsUpdate(p)
    /\ resp' = Response(op, client_ip, 0, "", 0, 500, "refresh_failed")
    /\ UNCHANGED <<links, logs, blocked, blocked_ips, last_update, now, sess, geo, users>>

(***************************************************************************)
(* app/api/links.py: verify_location                                       *)
(***************************************************************************)
Idle ==
    [pc |-> "idle", link_id |-> 0, allowed |-> FALSE, distance |-> 0,
     visit_count |-> 0, success_count |-> 0, denied_count |-> 0,
     visitor_lat |-> 0, visitor_lng |-> 0, ip_address |-> "",
     short_code |-> "", current_user |-> 0, user_id |-> 0,
     loaded |-> <<>>, dirty |-> <<>>]

\* The lookup and the lifecycle checks: the status and detail of the
\* HTTPException raised, status 0 when none is raised.
verify_lookup_banned_first(ls, short_code) ==
    LET id == FindByShortCode(ls, short_code)
    IN  IF id = 0
        THEN [status |-> 404, detail |-> "link_not_found", link_id |-> 0]
        ELSE IF ls[id].is_banned
        THEN [status |-> 403, detail |-> "link_banned", link_id |-> id]
        ELSE IF ls[id].is_deleted
        THEN [status |-> 404, detail |-> "link_not_found", link_id |-> 0]
        ELSE IF ~ls[id].is_active
        THEN [status |-> 403, detail |-> "link_disabled", link_id |-> id]
        ELSE [status |-> 0, detail |-> "", link_id |-> id]

verify_lookup(ls, short_code) ==
    LET id == FindByShortCode(ls, short_code)
    IN  IF id = 0 \/ ls[id].is_deleted
        THEN [status |-> 404, detail |-> "link_not_found", link_id |-> 0]
        ELSE IF ~ls[id].is_active
        THEN [status |-> 403,
              detail |-> IF ls[id].is_banned THEN "link_banned" ELSE "link_disabled",
              link_id |-> id]
        ELSE [status |-> 0, detail |-> "", link_id |-> id]

\* The session after the geofence check and the in-memory increments: the
\* Link object with its new counter values, and the AccessLog to add.
verify_session(ls, id, location, client_ip) ==
    LET r == is_within_radius(location.latitude, location.longitude,
                              ls[id].center_lat, ls[id].center_lng,
                              ls[id].radius_meters)
    IN  [pc |-> "loaded", link_id |-> id,
         allowed |-> r.is_allowed, distance |-> r.distance,
         visit_count |-> ls[id].visit_count + 1,
         success_count |-> IF r.is_allowed THEN ls[id].success_count + 1
                           ELSE ls[id].success_count,
         denied_count |-> IF r.is_allowed THEN ls[id].denied_count
                          ELSE ls[id].denied_count + 1,
         visitor_lat |-> location.latitude, visitor_lng |-> location.longitude,
         ip_address |-> client_ip,
         short_code |-> ls[id].short_code, current_user |-> 0,
         user_id |-> 0, loaded |-> <<>>, dirty |-> <<>>]

\* The UPDATE of db.commit(): the ORM writes the attributes the handler
\* assigned (visit_count, and success_count or denied_count) with the values
\* computed in memory.
FlushBothCounters(ls, s) ==
    [ls EXCEPT ![s.link_id] =
        [@ EXCEPT !.visit_count = s.visit_count,
                  !.success_count = @ + 1,
                  !.denied_count = @ + 1]]

\* A flush that also switches the link off once its visits are used up.
FlushDisablingAtCap(ls, s) ==
    [ls EXCEPT ![s.link_id] =
        [@ EXCEPT !.visit_count = s.visit_count,
                  !.success_count = IF s.allowed THEN s.success_count ELSE @,
                  !.denied_count = IF s.allowed THEN @ ELSE s.denied_count,
                  !.is_active = IF @ /\ ls[s.link_id].max_visits # None
                                THEN s.visit_count < ls[s.link_id].max_visits[1]
                                ELSE @]]

Flush(ls, s) ==
    [ls EXCEPT ![s.link_id] =
        [@ EXCEPT !.visit_count = s.visit_count,
                  !.success_count = IF s.allowed THEN s.success_count ELSE @,
                  !.denied_count = IF s.allowed THEN @ ELSE s.denied_count]]

\* The INSERT of db.commit(): the AccessLog row.
AccessLogRow(s) ==
    [link_id |-> s.link_id,
     visitor_lat |-> s.visitor_lat, visitor_lng |-> s.visitor_lng,
     distance_meters |-> round2(s.distance),
     access_granted |-> s.allowed,
     ip_address |-> s.ip_address]

\* LocationVerifyResponse.  The commit expires the Link object, so the
\* attributes read here are those of the row after the commit.
LocationVerifyResponseWithUrl(ls, s) ==
    LET link == ls[s.link_id]
    IN  [Response("verify", s.ip_address, 0, link.short_code, 0, 200, "")
            EXCEPT !.allowed = Some(s.allowed),
                   !.target_url = Some(link.target_url),
                   !.distance = Some(round2(s.distance)),
                   !.radius = Some(link.radius_meters),
                   !.message = IF ~s.allowed THEN Some("out_of_range") ELSE None,
                   !.contact_wechat = IF ~s.allowed THEN link.contact_wechat ELSE None,
                   !.title = link.title]

LocationVerifyResponseWithContact(ls, s) ==
    LET link == ls[s.link_id]
    IN  [Response("verify", s.ip_address, 0, link.short_code, 0, 200, "")
            EXCEPT !.allowed = Some(s.allowed),
                   !.target_url = IF s.allowed THEN Some(link.target_url) ELSE None,
                   !.distance = Some(round2(s.distance)),
                   !.radius = Some(link.radius_meters),
                   !.message = IF ~s.allowed THEN Some("out_of_range") ELSE None,
                   !.contact_wechat = link.contact_wechat,
                   !.title = link.title]

LocationVerifyResponse(ls, s) ==
    LET link == ls[s.link_id]
    IN  [Response("verify", s.ip_address, 0, link.short_code, 0, 200, "")
            EXCEPT !.allowed = Some(s.allowed),
                   !.target_url = IF s.allowed THEN Some(link.target_url) ELSE None,
                   !.distance = Some(round2(s.distance)),
                   !.radius = Some(link.radius_meters),
                   !.message = IF ~s.allowed THEN Some("out_of_range") ELSE None,
                   !.contact_wechat = IF ~s.allowed THEN link.contact_wechat ELSE None,
                   !.title = link.title]

\* The verifications between their query and their commit.
InFlight == Cardinality({q \in Workers : sess[q].pc = "loaded"})

\* A verify_location that counts a visit of a disabled link as denied.
verify_location_query_counting(p, client_ip, short_code, location, cap) ==
    /\ dispatch(p, client_ip)
    /\
        LET v == verify_lookup(links, short_code)
        IN  IF v.status # 0
            THEN /\ resp' = Response("verify", client_ip, 0, short_code, 0,
                                     v.status, v.detail)
                 /\ links' = IF v.link_id = 0 THEN links
                             ELSE [links EXCEPT ![v.link_id] =
                                     [@ EXCEPT !.visit_count = @ + 1,
                                               !.denied_count = @ + 1]]
                 /\ UNCHANGED <<logs, blocked, now, sess, geo, users>>
            ELSE /\ Len(logs) + InFlight < cap
                 /\ sess' = [sess EXCEPT ![p] =
                                verify_session(links, v.link_id, location, client_ip)]
                 /\ resp' = Response("verify", client_ip, 0, short_code, 0, 0, "")
                 /\ UNCHANGED <<links, logs, blocked, now, geo, users>>

\* verify_location up to db.commit(): the query, the checks, the geofence
\* verdict and the in-memory changes, while fewer than cap verifications are
\* stored or under way.
verify_location_query(p, client_ip, short_code, location, cap) ==
    /\ dispatch(p, client_ip)
    /\
        LET v == verify_lookup(links, short_code)
        IN  IF v.status # 0
            THEN /\ resp' = Response("verify", client_ip, 0, short_code, 0,
                                     v.status, v.detail)
                 /\ UNCHANGED <<links, logs, blocked, now, sess, geo, users>>
            ELSE /\ Len(logs) + InFlight < cap
                 /\ sess' = [sess EXCEPT ![p] =
                                verify_session(links, v.link_id, location, client_ip)]
                 /\ resp' = Response("verify", client_ip, 0, short_code, 0, 0, "")
                 /\ UNCHANGED <<links, logs, blocked, now, geo, users>>

verify_location(p, client_ip, short_code, location) ==
    verify_location_query(p, client_ip, short_code, location, MaxLogs)

\* db.commit() of verify_location and the response.
verify_commit(p) ==
    /\ sess[p].pc = "loaded"
    /\ links' = Flush(links, sess[p])
    /\ logs' = Append(logs, AccessLogRow(sess[p]))
    /\ resp' = LocationVerifyResponse(links', sess[p])
    /\ sess' = [sess EXCEPT ![p] = Idle]
    /\ UNCHANGED <<blocked, blocked_ips, last_update, now, geo, users>>

\* A failing commit that has stored the UPDATE of the counters on its own.
verify_commit_fails_partial(p) ==
    /\ sess[p].pc = "loaded"
    /\ links' = Flush(links, sess[p])
    /\ resp' = Response("verify", sess[p].ip_address, 0,
                        links[sess[p].link_id].short_code, 0, 500, "server_error")
    /\ sess' = [sess EXCEPT ![p] = Idle]
    /\ UNCHANGED <<logs, blocked, blocked_ips, last_update, now, geo, users>>

\* db.commit() raises: nothing of the transaction is stored and the request
\* ends in a server error.
verify_commit_fails(p) ==
    /\ sess[p].pc = "loaded"
    /\ resp' = Response("verify", sess[p].ip_address, 0,
                        links[sess[p].link_id].short_code, 0, 500, "server_error")
    /\ sess' = [sess EXCEPT ![p] = Idle]
    /\ UNCHANGED <<links, logs, blocked, blocked_ips, last_update, now, geo, users>>

\* verify_location from its query to its response with no other worker's
\* step in between, while the access_logs table has fewer than cap rows.
\* No limiter is consulted on the way: main.py registers the Limiter and its
\* exception handler but installs no middleware that applies default_limits,
\* and the route carries no limiter.limit decorator.
verify_location_within(p, client_ip, short_code, location, cap) ==
    /\ dispatch(p, client_ip)
    /\
        LET v == verify_lookup(links, short_code)
            s == verify_session(links, v.link_id, location, client_ip)
        IN  IF v.status # 0
            THEN /\ resp' = Response("verify", client_ip, 0, short_code, 0,
                                     v.status, v.detail)
                 /\ UNCHANGED <<links, logs, blocked, now, sess, geo, users>>
            ELSE /\ Len(logs) < cap
                 /\ links' = Flush(links, s)
                 /\ logs' = Append(logs, AccessLogRow(s))
                 /\ resp' = LocationVerifyResponse(links', s)
                 /\ UNCHANGED <<blocked, now, sess, geo, users>>

verify_location_alone(p, client_ip, short_code, location) ==
    verify_location_within(p, client_ip, short_code, location, MaxLogs)

(***************************************************************************)
(* app/api/links.py: the admin routes.  current_user is the user of the    *)
(* request's token; every user of Users is an active administrator.        *)
(***************************************************************************)
\* An optional short code.
GeneratedCodes == {Some(c) : c \in Codes} \cup {None}

\* LinkCreate bodies.  short_code None asks for a generated code.
CreateRequests ==
    {[short_code |-> c, title |-> Some("t"), target_url |-> "https://target",
      center_lat |-> 0, center_lng |-> 0, radius_meters |-> 2,
      location_name |-> Some("loc"), contact_wechat |-> None,
      expire_at |-> None, max_visits |-> None] : c \in GeneratedCodes}

\* LinkUpdate bodies: a field that is None is left as it is.
NoUpdate ==
    [title |-> None, target_url |-> None, center_lat |-> None, center_lng |-> None,
     radius_meters |-> None, location_name |-> None, contact_wechat |-> None,
     is_active |-> None, expire_at |-> None, max_visits |-> None]

\* Bodies that switch a link on or off.
ActivationRequests ==
    {[NoUpdate EXCEPT !.is_active = Some(TRUE)],
     [NoUpdate EXCEPT !.is_active = Some(FALSE)]}

UpdateRequests ==
    ActivationRequests \cup
    {[NoUpdate EXCEPT !.max_visits = Some(1)],
     [NoUpdate EXCEPT !.max_visits = Some(2)],
     [NoUpdate EXCEPT !.expire_at = Some(ExpireAt)],
     [NoUpdate EXCEPT !.contact_wechat = Some("wx"), !.is_active = Some(TRUE)]}

\* Link(...) of create_link with the column defaults.  expire_at and
\* max_visits of the body are not passed on.
NewLink(short_code, link_data, current_user) ==
    [short_code |-> short_code,
     title |-> link_data.title,
     target_url |-> link_data.target_url,
     center_lat |-> link_data.center_lat,
     center_lng |-> link_data.center_lng,
     radius_meters |-> link_data.radius_meters,
     location_name |-> link_data.location_name,
     contact_wechat |-> link_data.contact_wechat,
     expire_at |-> None,
     max_visits |-> None,
     created_by |-> current_user,
     is_active |-> TRUE,
     is_banned |-> FALSE,
     is_deleted |-> FALSE,
     visit_count |-> 0,
     success_count |-> 0,
     denied_count |-> 0]

\* The codes no row has.
FreeCodes == {c \in Codes : FindByShortCode(links, c) = 0}

\* create_link.  generated is what the loop over generate_short_code() ends
\* with: a code no row has, or None when every attempt met a code in use
\* (which takes a code in use to begin with).
create_link(p, client_ip, current_user, link_data, generated) ==
    /\ dispatch(p, client_ip)
    /\
        IF link_data.short_code # None
        THEN LET short_code == link_data.short_code[1]
             IN  /\ generated = None
                 /\ IF FindByShortCode(links, short_code) # 0
                    THEN /\ resp' = Response("create", client_ip, current_user,
                                             short_code, 0, 400, "code_in_use")
                         /\ UNCHANGED <<links, logs, blocked, now, sess, geo, users>>
                    ELSE /\ links' = Append(links,
                                        NewLink(short_code, link_data, current_user))
                         /\ resp' = Response("create", client_ip, current_user,
                                             short_code, Len(links'), 201, "")
                         /\ UNCHANGED <<logs, blocked, now, sess, geo, users>>
        ELSE IF generated = None
        THEN /\ FreeCodes # Codes
             /\ resp' = Response("create", client_ip, current_user,
                                 "", 0, 500, "generation_failed")
             /\ UNCHANGED <<links, logs, blocked, now, sess, geo, users>>
        ELSE /\ generated[1] \in FreeCodes
             /\ links' = Append(links, NewLink(generated[1], link_data, current_user))
             /\ resp' = Response("create", client_ip, current_user,
                                 generated[1], Len(links'), 201, "")
             /\ UNCHANGED <<logs, blocked, now, sess, geo, users>>

\* create_link up to db.commit(): the existence check, or the loop over
\* generate_short_code(), and the Link object added to the session.  The
\* bodies of CreateRequests differ in their short code only, so the session
\* keeps the code and the user.
create_link_query(p, client_ip, current_user, link_data, generated) ==
    /\ dispatch(p, client_ip)
    /\
        IF link_data.short_code # None
        THEN LET short_code == link_data.short_code[1]
             IN  /\ generated = None
                 /\ IF FindByShortCode(links, short_code) # 0
                    THEN /\ resp' = Response("create", client_ip, current_user,
                                             short_code, 0, 400, "code_in_use")
                         /\ UNCHANGED <<links, logs, blocked, now, sess, geo, users>>
                    ELSE /\ sess' = [sess EXCEPT ![p] =
                                        [Idle EXCEPT !.pc = "creating",
                                                     !.ip_address = client_ip,
                                                     !.short_code = short_code,
                                                     !.current_user = current_user]]
                         /\ resp' = Response("create", client_ip, current_user,
                                             short_code, 0, 0, "")
                         /\ UNCHANGED <<links, logs, blocked, now, geo, users>>
        ELSE IF generated = None
        THEN /\ FreeCodes # Codes
             /\ resp' = Response("create", client_ip, current_user,
                                 "", 0, 500, "generation_failed")
             /\ UNCHANGED <<links, logs, blocked, now, sess, geo, users>>
        ELSE /\ generated[1] \in FreeCodes
             /\ sess' = [sess EXCEPT ![p] =
                            [Idle EXCEPT !.pc = "creating",
                                         !.ip_address = client_ip,
                                         !.short_code = generated[1],
                                         !.current_user = current_user]]
             /\ resp' = Response("create", client_ip, current_user,
                                 generated[1], 0, 0, "")
             /\ UNCHANGED <<links, logs, blocked, now, geo, users>>

\* The body of the create in the session of worker p.
LinkDataOf(s) ==
    CHOOSE link_data \in CreateRequests : link_data.short_code \in {None, Some(s.short_code)}

\* The INSERT of a create into a table without the unique constraint.
create_commit_no_unique(p) ==
    /\ sess[p].pc = "creating"
    /\ links' = Append(links, NewLink(sess[p].short_code, LinkDataOf(sess[p]),
                                      sess[p].current_user))
    /\ resp' = Response("create", sess[p].ip_address, sess[p].current_user,
                        sess[p].short_code, Len(links'), 201, "")
    /\ sess' = [sess EXCEPT ![p] = Idle]
    /\ UNCHANGED <<logs, blocked, blocked_ips, last_update, now, geo, users>>

\* db.commit() of create_link: the INSERT.  short_code is a unique column, so
\* the INSERT of a code that a row has by now raises and the request ends in
\* a server error.
create_commit(p) ==
    /\ sess[p].pc = "creating"
    /\ IF FindByShortCode(links, sess[p].short_code) # 0
       THEN /\ resp' = Response("create", sess[p].ip_address, sess[p].current_user,
                                sess[p].short_code, 0, 500, "integrity_error")
            /\ UNCHANGED links
       ELSE /\ links' = Append(links, NewLink(sess[p].short_code, LinkDataOf(sess[p]),
                                              sess[p].current_user))
            /\ resp' = Response("create", sess[p].ip_address, sess[p].current_user,
                                sess[p].short_code, Len(links'), 201, "")
    /\ sess' = [sess EXCEPT ![p] = Idle]
    /\ UNCHANGED <<logs, blocked, blocked_ips, last_update, now, geo, users>>

\* Whether current_user may act on the link: a super admin, or its creator.
MayAccess(link, current_user) ==
    role(current_user) = super_admin \/ link.created_by = current_user

\* if link_data.x is not None: link.x = link_data.x, for a column that is
\* not nullable (Set) and for one that is (SetOpt).
Set(old, new) == IF new # None THEN new[1] ELSE old

SetOpt(old, new) == IF new # None THEN new ELSE old

\* An update that lifts the ban whenever a super admin sends it.
UpdatedLinkUnbanning(link, link_data, current_user) ==
    [link EXCEPT
        !.title = SetOpt(@, link_data.title),
        !.target_url = Set(@, link_data.target_url),
        !.center_lat = Set(@, link_data.center_lat),
        !.center_lng = Set(@, link_data.center_lng),
        !.radius_meters = Set(@, link_data.radius_meters),
        !.location_name = SetOpt(@, link_data.location_name),
        !.contact_wechat = SetOpt(@, link_data.contact_wechat),
        !.is_banned = IF role(current_user) = super_admin THEN FALSE ELSE @,
        !.is_active = Set(@, link_data.is_active),
        !.expire_at = SetOpt(@, link_data.expire_at),
        !.max_visits = SetOpt(@, link_data.max_visits)]

\* The row update_link commits.
UpdatedLink(link, link_data, current_user) ==
    [link EXCEPT
        !.title = SetOpt(@, link_data.title),
        !.target_url = Set(@, link_data.target_url),
        !.center_lat = Set(@, link_data.center_lat),
        !.center_lng = Set(@, link_data.center_lng),
        !.radius_meters = Set(@, link_data.radius_meters),
        !.location_name = SetOpt(@, link_data.location_name),
        !.contact_wechat = SetOpt(@, link_data.contact_wechat),
        !.is_banned = IF link_data.is_active = Some(TRUE) /\ role(current_user) = super_admin
                      THEN FALSE ELSE @,
        !.is_active = Set(@, link_data.is_active),
        !.expire_at = SetOpt(@, link_data.expire_at),
        !.max_visits = SetOpt(@, link_data.max_visits)]

\* The in-memory row after the assignments that come before the ban check
\* of update_link: title, target_url, center, radius, location_name and
\* contact_wechat.
AssignedLink(link, link_data) ==
    [link EXCEPT
        !.title = SetOpt(@, link_data.title),
        !.target_url = Set(@, link_data.target_url),
        !.center_lat = Set(@, link_data.center_lat),
        !.center_lng = Set(@, link_data.center_lng),
        !.radius_meters = Set(@, link_data.radius_meters),
        !.location_name = SetOpt(@, link_data.location_name),
        !.contact_wechat = SetOpt(@, link_data.contact_wechat)]

\* get_db after a request that raised: the session of the request is closed
\* without a commit, so the table keeps its rows and the row dirty, assigned
\* in memory for link id, is dropped with the session.
get_db_close(ls, id, dirty) == ls

\* An update that writes the assigned fields before it rejects.
update_link_flushing(p, client_ip, current_user, link_id, link_data) ==
    /\ dispatch(p, client_ip)
    /\
        LET id == FindById(links, link_id)
        IN  IF id = 0 \/ links[id].is_deleted
            THEN /\ resp' = Response("update", client_ip, current_user,
                                     "", link_id, 404, "link_not_found")
                 /\ UNCHANGED <<links, logs, blocked, now, sess, geo, users>>
            ELSE IF ~MayAccess(links[id], current_user)
            THEN /\ resp' = Response("update", client_ip, current_user,
                                     "", link_id, 403, "forbidden")
                 /\ UNCHANGED <<links, logs, blocked, now, sess, geo, users>>
            ELSE IF /\ link_data.is_active = Some(TRUE)
                    /\ links[id].is_banned
                    /\ role(current_user) # super_admin
            THEN /\ links' = [links EXCEPT ![id] = AssignedLink(@, link_data)]
                 /\ resp' = Response("update", client_ip, current_user,
                                     "", link_id, 403, "link_banned")
                 /\ UNCHANGED <<logs, blocked, now, sess, geo, users>>
            ELSE /\ links' = [links EXCEPT ![id] =
                                UpdatedLink(@, link_data, current_user)]
                 /\ resp' = Response("update", client_ip, current_user,
                                     "", link_id, 200, "")
                 /\ UNCHANGED <<logs, blocked, now, sess, geo, users>>

\* update_link: 404 for a missing or deleted link, 403 for a caller who is
\* neither a super admin nor the creator, the assignments, 403 when a caller
\* who is no super admin enables a banned link, the commit otherwise.
update_link(p, client_ip, current_user, link_id, link_data) ==
    /\ dispatch(p, client_ip)
    /\
        LET id == FindById(links, link_id)
        IN  IF id = 0 \/ links[id].is_deleted
            THEN /\ resp' = Response("update", client_ip, current_user,
                                     "", link_id, 404, "link_not_found")
                 /\ UNCHANGED <<links, logs, blocked, now, sess, geo, users>>
            ELSE IF ~MayAccess(links[id], current_user)
            THEN /\ resp' = Response("update", client_ip, current_user,
                                     "", link_id, 403, "forbidden")
                 /\ UNCHANGED <<links, logs, blocked, now, sess, geo, users>>
            ELSE IF /\ link_data.is_active = Some(TRUE)
                    /\ links[id].is_banned
                    /\ role(current_user) # super_admin
            THEN /\ links' = get_db_close(links, id, AssignedLink(links[id], link_data))
                 /\ resp' = Response("update", client_ip, current_user,
                                     "", link_id, 403, "link_banned")
                 /\ UNCHANGED <<logs, blocked, now, sess, geo, users>>
            ELSE /\ links' = [links EXCEPT ![id] =
                                UpdatedLink(@, link_data, current_user)]
                 /\ resp' = Response("update", client_ip, current_user,
                                     "", link_id, 200, "")
                 /\ UNCHANGED <<logs, blocked, now, sess, geo, users>>

\* update_link up to db.commit(): the lookup, the checks and the
\* assignments.  The session keeps the row as it was loaded and the row with
\* the assignments made in memory.
update_link_query(p, client_ip, current_user, link_id, link_data) ==
    /\ dispatch(p, client_ip)
    /\
        LET id == FindById(links, link_id)
        IN  IF id = 0 \/ links[id].is_deleted
            THEN /\ resp' = Response("update", client_ip, current_user,
                                     "", link_id, 404, "link_not_found")
                 /\ UNCHANGED <<links, logs, blocked, now, sess, geo, users>>
            ELSE IF ~MayAccess(links[id], current_user)
            THEN /\ resp' = Response("update", client_ip, current_user,
                                     "", link_id, 403, "forbidden")
                 /\ UNCHANGED <<links, logs, blocked, now, sess, geo, users>>
            ELSE IF /\ link_data.is_active = Some(TRUE)
                    /\ links[id].is_banned
                    /\ role(current_user) # super_admin
            THEN /\ links' = get_db_close(links, id, AssignedLink(links[id], link_data))
                 /\ resp' = Response("update", client_ip, current_user,
                                     "", link_id, 403, "link_banned")
                 /\ UNCHANGED <<logs, blocked, now, sess, geo, users>>
            ELSE /\ sess' = [sess EXCEPT ![p] =
                                [Idle EXCEPT
                                    !.pc = "updating",
                                    !.link_id = id,
                                    !.ip_address = client_ip,
                                    !.current_user = current_user,
                                    !.loaded = <<links[id]>>,
                                    !.dirty = <<UpdatedLink(links[id], link_data,
                                                            current_user)>>]]
                 /\ resp' = Response("update", client_ip, current_user,
                                     "", link_id, 0, "")
                 /\ UNCHANGED <<links, logs, blocked, now, geo, users>>

\* The UPDATE of a commit: the ORM writes the columns whose value in memory
\* differs from the value loaded, and leaves the other columns of the stored
\* row as they are by now.
WrittenRow(stored, loaded, dirty) ==
    [f \in DOMAIN stored |-> IF dirty[f] # loaded[f] THEN dirty[f] ELSE stored[f]]

\* db.commit() of update_link.
update_commit(p) ==
    /\ sess[p].pc = "updating"
    /\ links' = [links EXCEPT ![sess[p].link_id] =
                    WrittenRow(@, sess[p].loaded[1], sess[p].dirty[1])]
    /\ resp' = Response("update", sess[p].ip_address, sess[p].current_user,
                        "", sess[p].link_id, 200, "")
    /\ sess' = [sess EXCEPT ![p] = Idle]
    /\ UNCHANGED <<logs, blocked, blocked_ips, last_update, now, geo, users>>

\* A delete whose soft delete resets the ban.
DeletedLinkResettingBan(link, current_user) ==
    IF role(current_user) = super_admin /\ link.created_by # current_user
    THEN [link EXCEPT !.is_banned = TRUE, !.is_active = FALSE]
    ELSE [link EXCEPT !.is_deleted = TRUE, !.is_active = FALSE, !.is_banned = FALSE]

\* The row delete_link commits: a ban of another user's link by a super
\* admin, a soft delete otherwise.
DeletedLink(link, current_user) ==
    IF role(current_user) = super_admin /\ link.created_by # current_user
    THEN [link EXCEPT !.is_banned = TRUE, !.is_active = FALSE]
    ELSE [link EXCEPT !.is_deleted = TRUE, !.is_active = FALSE]

delete_link_with_logs(p, client_ip, current_user, link_id) ==
    /\ dispatch(p, client_ip)
    /\
        LET id == FindById(links, link_id)
        IN  IF id = 0 \/ links[id].is_deleted
            THEN /\ resp' = Response("delete", client_ip, current_user,
                                     "", link_id, 404, "link_not_found")
                 /\ UNCHANGED <<links, logs, blocked, now, sess, geo, users>>
            ELSE IF ~MayAccess(links[id], current_user)
            THEN /\ resp' = Response("delete", client_ip, current_user,
                                     "", link_id, 403, "forbidden")
                 /\ UNCHANGED <<links, logs, blocked, now, sess, geo, users>>
            ELSE /\ links' = [links EXCEPT ![id] = DeletedLink(@, current_user)]
                 /\ logs' = SelectSeq(logs, LAMBDA row : row.link_id # id)
                 /\ resp' = Response("delete", client_ip, current_user,
                                     "", link_id, 204, "")
                 /\ UNCHANGED <<blocked, now, sess, geo, users>>

delete_link(p, client_ip, current_user, link_id) ==
    /\ dispatch(p, client_ip)
    /\
        LET id == FindById(links, link_id)
        IN  IF id = 0 \/ links[id].is_deleted
            THEN /\ resp' = Response("delete", client_ip, current_user,
                                     "", link_id, 404, "link_not_found")
                 /\ UNCHANGED <<links, logs, blocked, now, sess, geo, users>>
            ELSE IF ~MayAccess(links[id], current_user)
            THEN /\ resp' = Response("delete", client_ip, current_user,
                                     "", link_id, 403, "forbidden")
                 /\ UNCHANGED <<links, logs, blocked, now, sess, geo, users>>
            ELSE /\ links' = [links EXCEPT ![id] = DeletedLink(@, current_user)]
                 /\ resp' = Response("delete", client_ip, current_user,
                                     "", link_id, 204, "")
                 /\ UNCHANGED <<logs, blocked, now, sess, geo, users>>

\* A restore that lifts the ban as well.
RestoredLinkUnbanned(link) ==
    [link EXCEPT !.is_deleted = FALSE, !.is_active = TRUE, !.is_banned = FALSE]

\* The row restore_link commits.
RestoredLink(link) == [link EXCEPT !.is_deleted = FALSE, !.is_active = TRUE]

restore_link(p, client_ip, current_user, link_id) ==
    /\ dispatch(p, client_ip)
    /\
        LET id == FindById(links, link_id)
        IN  IF id = 0
            THEN /\ resp' = Response("restore", client_ip, current_user,
                                     "", link_id, 404, "link_not_found")
                 /\ UNCHANGED <<links, logs, blocked, now, sess, geo, users>>
            ELSE IF ~MayAccess(links[id], current_user)
            THEN /\ resp' = Response("restore", client_ip, current_user,
                                     "", link_id, 403, "forbidden")
                 /\ UNCHANGED <<links, logs, blocked, now, sess, geo, users>>
            ELSE IF ~links[id].is_deleted
            THEN /\ resp' = Response("restore", client_ip, current_user,
                                     "", link_id, 400, "not_deleted")
                 /\ UNCHANGED <<links, logs, blocked, now, sess, geo, users>>
            ELSE /\ links' = [links EXCEPT ![id] = RestoredLink(@)]
                 /\ resp' = Response("restore", client_ip, current_user,
                                     "", link_id, 200, "")
                 /\ UNCHANGED <<logs, blocked, now, sess, geo, users>>

\* get_link_stats: 404 for a missing or deleted link, 403 for a caller who
\* is neither a super admin nor the creator, the counters of the row
\* otherwise.  It reads one row and writes nothing.
get_link_stats(p, client_ip, current_user, link_id) ==
    /\ dispatch(p, client_ip)
    /\
        LET id == FindById(links, link_id)
        IN  IF id = 0 \/ links[id].is_deleted
            THEN resp' = Response("stats", client_ip, current_user,
                                  "", link_id, 404, "link_not_found")
            ELSE IF ~MayAccess(links[id], current_user)
            THEN resp' = Response("stats", client_ip, current_user,
                                  "", link_id, 403, "forbidden")
            ELSE resp' = Response("stats", client_ip, current_user,
                                  "", link_id, 200, "")
    /\ UNCHANGED <<links, logs, blocked, now, sess, geo, users>>

\* The response of get_public_link_info: 404 for a short code without a row
\* and for a deleted link, the PublicLinkInfo of the row otherwise.
PublicLinkInfoActiveOnly(ls, client_ip, short_code) ==
    LET id == FindByShortCode(ls, short_code)
    IN  IF id = 0 \/ ls[id].is_deleted \/ ~ls[id].is_active
        THEN Response("public", client_ip, 0, short_code, 0, 404, "link_not_found")
        ELSE [Response("public", client_ip, 0, short_code, 0, 200, "")
                EXCEPT !.title = ls[id].title,
                       !.is_active = Some(ls[id].is_active),
                       !.location_name = ls[id].location_name]

PublicLinkInfo(ls, client_ip, short_code) ==
    LET id == FindByShortCode(ls, short_code)
    IN  IF id = 0 \/ ls[id].is_deleted
        THEN Response("public", client_ip, 0, short_code, 0, 404, "link_not_found")
        ELSE [Response("public", client_ip, 0, short_code, 0, 200, "")
                EXCEPT !.title = ls[id].title,
                       !.is_active = Some(ls[id].is_active),
                       !.location_name = ls[id].location_name]

\* get_public_link_info: one query and the response, no write.
get_public_link_info(p, client_ip, short_code) ==
    /\ dispatch(p, client_ip)
    /\ resp' = PublicLinkInfo(links, client_ip, short_code)
    /\ UNCHANGED <<links, logs, blocked, now, sess, geo, users>>

(***************************************************************************)
(* app/api/admin.py: the blocklist routes (require_super_admin).  A row    *)
(* of blocked_ips is named by its address.                                 *)
(***************************************************************************)
block_ip(p, client_ip, current_user, ip_address) ==
    /\ dispatch(p, client_ip)
    /\
        IF role(current_user) # super_admin
        THEN /\ resp' = Response("block_ip", client_ip, current_user,
                                 ip_address, 0, 403, "forbidden")
             /\ UNCHANGED <<links, logs, blocked, now, sess, geo, users>>
        ELSE IF ip_address \in BlockedAddresses(blocked)
        THEN /\ resp' = Response("block_ip", client_ip, current_user,
                                 ip_address, 0, 400, "already_blocked")
             /\ UNCHANGED <<links, logs, blocked, now, sess, geo, users>>
        ELSE /\ blocked' = blocked \cup {[ip_address |-> ip_address, created_at |-> now]}
             /\ resp' = Response("block_ip", client_ip, current_user,
                                 ip_address, 0, 201, "")
             /\ UNCHANGED <<links, logs, now, sess, geo, users>>

unblock_ip(p, client_ip, current_user, ip_address) ==
    /\ dispatch(p, client_ip)
    /\
        IF role(current_user) # super_admin
        THEN /\ resp' = Response("unblock_ip", client_ip, current_user,
                                 ip_address, 0, 403, "forbidden")
             /\ UNCHANGED <<links, logs, blocked, now, sess, geo, users>>
        ELSE IF ip_address \notin BlockedAddresses(blocked)
        THEN /\ resp' = Response("unblock_ip", client_ip, current_user,
                                 ip_address, 0, 404, "no_such_row")
             /\ UNCHANGED <<links, logs, blocked, now, sess, geo, users>>
        ELSE /\ blocked' = {row \in blocked : row.ip_address # ip_address}
             /\ resp' = Response("unblock_ip", client_ip, current_user,
                                 ip_address, 0, 204, "")
             /\ UNCHANGED <<links, logs, now, sess, geo, users>>

(***************************************************************************)
(* app/api/admin.py: the user routes (require_super_admin).  A request     *)
(* runs its dependencies and its queries in one step and commits in a      *)
(* second one; the workers interleave in between.                          *)
(***************************************************************************)
\* get_current_user and require_super_admin: the status and detail of the
\* HTTPException raised, status 0 when none is raised.
require_super_admin(us, current_user) ==
    IF current_user \notin DOMAIN us
    THEN [status |-> 401, detail |-> "no_such_user"]
    ELSE IF ~us[current_user].is_active
    THEN [status |-> 403, detail |-> "user_disabled"]
    ELSE IF us[current_user].role # super_admin
    THEN [status |-> 403, detail |-> "forbidden"]
    ELSE [status |-> 0, detail |-> ""]

\* UserCreate bodies.
UserCreateRequests ==
    [username : {"u1", "u3"}, email : {"u1@x", "u3@x"}, role : {super_admin, admin}]

\* UserUpdate bodies: a field that is None is left as it is.
UserUpdateRequests ==
    [email : {None, Some("u4@x")},
     is_active : {None, Some(TRUE), Some(FALSE)}]

\* create_user: 400 for a username or an email in use, the new account
\* otherwise, active and with the role of the body.
create_user(p, client_ip, current_user, user_data) ==
    /\ dispatch(p, client_ip)
    /\ Len(users) < MaxUsers
    /\
        LET auth == require_super_admin(users, current_user)
        IN  IF auth.status # 0
            THEN /\ resp' = Response("create_user", client_ip, current_user,
                                     "", 0, auth.status, auth.detail)
                 /\ UNCHANGED users
            ELSE IF \E u \in DOMAIN users : users[u].username = user_data.username
            THEN /\ resp' = Response("create_user", client_ip, current_user,
                                     "", 0, 400, "username_in_use")
                 /\ UNCHANGED users
            ELSE IF \E u \in DOMAIN users : users[u].email = user_data.email
            THEN /\ resp' = Response("create_user", client_ip, current_user,
                                     "", 0, 400, "email_in_use")
                 /\ UNCHANGED users
            ELSE /\ users' = Append(users,
                                [username |-> user_data.username,
                                 email |-> user_data.email,
                                 role |-> user_data.role,
                                 is_active |-> TRUE,
                                 created_by |-> current_user])
                 /\ resp' = Response("create_user", client_ip, current_user,
                                     "", Len(users'), 201, "")
    /\ UNCHANGED <<links, logs, blocked, now, sess, geo>>

\* The row of update_user after its assignments.
UpdatedUser(user, user_data) ==
    [user EXCEPT !.email = Set(@, user_data.email),
                 !.is_active = Set(@, user_data.is_active)]

\* update_user up to db.commit(): the caller's account and role, 404 for a
\* missing account, 400 for a caller who disables the own account, 400 for
\* an email another account has, the assignments otherwise.
update_user_query(p, client_ip, current_user, user_id, user_data) ==
    /\ dispatch(p, client_ip)
    /\ sess[p].pc = "idle"
    /\
        LET auth == require_super_admin(users, current_user)
        IN  IF auth.status # 0
            THEN /\ resp' = Response("update_user", client_ip, current_user,
                                     "", user_id, auth.status, auth.detail)
                 /\ UNCHANGED sess
            ELSE IF user_id \notin DOMAIN users
            THEN /\ resp' = Response("update_user", client_ip, current_user,
                                     "", user_id, 404, "user_not_found")
                 /\ UNCHANGED sess
            ELSE IF user_id = current_user /\ user_data.is_active = Some(FALSE)
            THEN /\ resp' = Response("update_user", client_ip, current_user,
                                     "", user_id, 400, "cannot_disable_self")
                 /\ UNCHANGED sess
            ELSE IF /\ user_data.email # None
                    /\ \E u \in DOMAIN users :
                          u # user_id /\ users[u].email = user_data.email[1]
            THEN /\ resp' = Response("update_user", client_ip, current_user,
                                     "", user_id, 400, "email_in_use")
                 /\ UNCHANGED sess
            ELSE /\ sess' = [sess EXCEPT ![p] =
                                [Idle EXCEPT
                                    !.pc = "updating_user",
                                    !.user_id = user_id,
                                    !.ip_address = client_ip,
                                    !.current_user = current_user,
                                    !.loaded = <<users[user_id]>>,
                                    !.dirty = <<UpdatedUser(users[user_id], user_data)>>]]
                 /\ resp' = Response("update_user", client_ip, current_user,
                                     "", user_id, 0, "")
    /\ UNCHANGED <<links, logs, blocked, now, geo, users>>

\* db.commit() of update_user.  email is a unique column, so the UPDATE of
\* an email that another row has by now raises and the request ends in a
\* server error.
update_user_commit(p) ==
    /\ sess[p].pc = "updating_user"
    /\ IF /\ sess[p].dirty[1].email # sess[p].loaded[1].email
          /\ \E u \in DOMAIN users :
                u # sess[p].user_id /\ users[u].email = sess[p].dirty[1].email
       THEN /\ resp' = Response("update_user", sess[p].ip_address, sess[p].current_user,
                                "", sess[p].user_id, 500, "integrity_error")
            /\ UNCHANGED users
       ELSE /\ users' = [users EXCEPT ![sess[p].user_id] =
                            WrittenRow(@, sess[p].loaded[1], sess[p].dirty[1])]
            /\ resp' = Response("update_user", sess[p].ip_address, sess[p].current_user,
                                "", sess[p].user_id, 200, "")
    /\ sess' = [sess EXCEPT ![p] = Idle]
    /\ UNCHANGED <<links, logs, blocked, blocked_ips, last_update, now, geo>>

\* delete_user up to db.commit(): the caller's account and role, 404 for a
\* missing account, 400 for the caller's own account, is_active = False
\* assigned otherwise.
delete_user_query(p, client_ip, current_user, user_id) ==
    /\ dispatch(p, client_ip)
    /\ sess[p].pc = "idle"
    /\
        LET auth == require_super_admin(users, current_user)
        IN  IF auth.status # 0
            THEN /\ resp' = Response("delete_user", client_ip, current_user,
                                     "", user_id, auth.status, auth.detail)
                 /\ UNCHANGED sess
            ELSE IF user_id \notin DOMAIN users
            THEN /\ resp' = Response("delete_user", client_ip, current_user,
                                     "", user_id, 404, "user_not_found")
                 /\ UNCHANGED sess
            ELSE IF user_id = current_user
            THEN /\ resp' = Response("delete_user", client_ip, current_user,
                                     "", user_id, 400, "cannot_delete_self")
                 /\ UNCHANGED sess
            ELSE /\ sess' = [sess EXCEPT ![p] =
                                [Idle EXCEPT
                                    !.pc = "deleting_user",
                                    !.user_id = user_id,
                                    !.ip_address = client_ip,
                                    !.current_user = current_user,
                                    !.loaded = <<users[user_id]>>,
                                    !.dirty = <<[users[user_id] EXCEPT
                                                    !.is_active = FALSE]>>]]
                 /\ resp' = Response("delete_user", client_ip, current_user,
                                     "", user_id, 0, "")
    /\ UNCHANGED <<links, logs, blocked, now, geo, users>>

\* db.commit() of delete_user.
delete_user_commit(p) ==
    /\ sess[p].pc = "deleting_user"
    /\ users' = [users EXCEPT ![sess[p].user_id] =
                    WrittenRow(@, sess[p].loaded[1], sess[p].dirty[1])]
    /\ resp' = Response("delete_user", sess[p].ip_address, sess[p].current_user,
                        "", sess[p].user_id, 204, "")
    /\ sess' = [sess EXCEPT ![p] = Idle]
    /\ UNCHANGED <<links, logs, blocked, blocked_ips, last_update, now, geo>>

(***************************************************************************)
(* The clock.                                                              *)
(***************************************************************************)
Tick ==
    /\ now + update_interval <= StartTime + MaxTicks * update_interval
    /\ now' = now + update_interval
    /\ UNCHANGED <<links, logs, blocked, blocked_ips, last_update, sess, resp, geo, users>>

(***************************************************************************)
(* The specifications.                                                     *)
(***************************************************************************)
GeoIdle ==
    [visitor_lat |-> 0, visitor_lng |-> 0, center_lat |-> 0, center_lng |-> 0,
     radius_meters |-> 0, called |-> FALSE, is_allowed |-> FALSE, distance |-> 0]

Init ==
    /\ links = <<>>
    /\ logs = <<>>
    /\ blocked = {}
    /\ blocked_ips = [p \in Workers |-> {}]
    /\ last_update = [p \in Workers |-> 0]
    /\ now = StartTime
    /\ sess = [p \in Workers |-> Idle]
    /\ resp = NoRequest
    /\ users = InitialUsers
    /\ geo = GeoIdle

LinkIds == 1..(Cardinality(Codes) + 1)

\* The admin routes of links.py, served by the workers ws, with the update
\* bodies updates.
LinkAdmin(ws, updates) ==
    \E p \in ws, current_user \in Users :
        \/ \E link_data \in CreateRequests, generated \in GeneratedCodes :
              create_link(p, VisitorIp, current_user, link_data, generated)
        \/ \E link_id \in LinkIds, link_data \in updates :
              update_link(p, VisitorIp, current_user, link_id, link_data)
        \/ \E link_id \in LinkIds :
              delete_link(p, VisitorIp, current_user, link_id)
        \/ \E link_id \in LinkIds :
              restore_link(p, VisitorIp, current_user, link_id)

Public(ws) ==
    \E p \in ws, short_code \in LookupCodes :
        get_public_link_info(p, VisitorIp, short_code)

\* Links and their visitors: the link routes called from one address, with
\* the blocklist left empty and updates that switch links on and off.  The
\* workers interleave between the query and the commit of verify_location.
Next ==
    \/ LinkAdmin(Workers, ActivationRequests)
    \/ Public(Workers)
    \/ \E p \in Workers, short_code \in LookupCodes, location \in Locations :
          verify_location(p, VisitorIp, short_code, location)
    \/ \E p \in Workers : verify_commit(p)
    \/ \E p \in Workers : verify_commit_fails(p)

Spec == Init /\ [][Next]_vars

\* The server run as one process.
Server == 1

\* The same routes served by one process: every request runs from its query
\* to its response before the next one starts.
NextSeq ==
    \/ LinkAdmin({Server}, UpdateRequests)
    \/ \E current_user \in Users, link_id \in LinkIds :
          get_link_stats(Server, VisitorIp, current_user, link_id)
    \/ Public({Server})
    \/ \E short_code \in LookupCodes, location \in Locations :
          verify_location_alone(Server, VisitorIp, short_code, location)

SpecSeq == Init /\ [][NextSeq]_vars

\* A visitor at the centre of the links.
Centre == [latitude |-> 0, longitude |-> 0]

\* The blocklist in front of the routes of one process: links are created
\* and visited at their centre from every address while a super admin blocks
\* and unblocks addresses, the clock advances and a load of the cache may
\* fail.
Ops == {"verify", "public", "create", "update", "delete", "restore",
        "block_ip", "unblock_ip"}

NextGate ==
    \/ \E client_ip \in IPs, link_data \in CreateRequests, current_user \in Users :
          /\ link_data.short_code # None
          /\ create_link(Server, client_ip, current_user, link_data, None)
    \/ \E client_ip \in IPs, short_code \in LookupCodes :
          verify_location_alone(Server, client_ip, short_code, Centre)
    \/ \E client_ip \in IPs, ip_address \in IPs, current_user \in Users :
          block_ip(Server, client_ip, current_user, ip_address)
    \/ \E client_ip \in IPs, ip_address \in IPs, current_user \in Users :
          unblock_ip(Server, client_ip, current_user, ip_address)
    \/ \E client_ip \in IPs, op \in Ops :
          dispatch_blocked(Server, client_ip, op)
    \/ \E client_ip \in IPs, op \in Ops :
          dispatch_update_fails(Server, client_ip, op)
    \/ Tick

SpecGate == Init /\ [][NextGate]_vars

\* Creates racing for a short code: the workers interleave between the
\* existence check and the insert of create_link, and update, delete and
\* restore the links in between.
NextCreate ==
    \/ \E p \in Workers, current_user \in Users,
          link_data \in CreateRequests, generated \in GeneratedCodes :
          create_link_query(p, VisitorIp, current_user, link_data, generated)
    \/ \E p \in Workers : create_commit(p)
    \/ \E p \in Workers, current_user \in Users,
          link_id \in LinkIds, link_data \in UpdateRequests :
          update_link(p, VisitorIp, current_user, link_id, link_data)
    \/ \E p \in Workers, current_user \in Users, link_id \in LinkIds :
          delete_link(p, VisitorIp, current_user, link_id)
    \/ \E p \in Workers, current_user \in Users, link_id \in LinkIds :
          restore_link(p, VisitorIp, current_user, link_id)

SpecCreate == Init /\ [][NextCreate]_vars

\* The lifecycle of a link under concurrent admin requests: the workers
\* interleave between the query and the commit of update_link, and create,
\* delete and restore links in between.
NextLife ==
    \/ \E p \in Workers, current_user \in Users,
          link_data \in CreateRequests, generated \in GeneratedCodes :
          create_link(p, VisitorIp, current_user, link_data, generated)
    \/ \E p \in Workers, current_user \in Users,
          link_id \in LinkIds, link_data \in ActivationRequests :
          update_link_query(p, VisitorIp, current_user, link_id, link_data)
    \/ \E p \in Workers : update_commit(p)
    \/ \E p \in Workers, current_user \in Users, link_id \in LinkIds :
          delete_link(p, VisitorIp, current_user, link_id)
    \/ \E p \in Workers, current_user \in Users, link_id \in LinkIds :
          restore_link(p, VisitorIp, current_user, link_id)

SpecLife == Init /\ [][NextLife]_vars

\* The accounts under concurrent requests of the super admins: the workers
\* interleave between the queries and the commit of update_user and of
\* delete_user, and accounts are created in between.
NextUsers ==
    \/ \E p \in Workers, current_user \in UserIds, user_data \in UserCreateRequests :
          create_user(p, VisitorIp, current_user, user_data)
    \/ \E p \in Workers, current_user \in UserIds, user_id \in UserIds,
          user_data \in UserUpdateRequests :
          update_user_query(p, VisitorIp, current_user, user_id, user_data)
    \/ \E p \in Workers : update_user_commit(p)
    \/ \E p \in Workers, current_user \in UserIds, user_id \in UserIds :
          delete_user_query(p, VisitorIp, current_user, user_id)
    \/ \E p \in Workers : delete_user_commit(p)

SpecUsers == Init /\ [][NextUsers]_vars

\* Visitors around the boundary of a link of radius 2 m: a few millimetres
\* inside it, on it and a few millimetres outside, the requests one after
\* another.
BoundaryLocations ==
    {[latitude |-> a, longitude |-> 0] :
        a \in {0, 1994, 1995, 1996, 2000, 2004, 2005, 2006, 2015}}

NextRound ==
    \/ \E link_data \in CreateRequests :
          /\ link_data.short_code # None
          /\ create_link(Server, VisitorIp, 2, link_data, None)
    \/ \E short_code \in Codes, location \in BoundaryLocations :
          verify_location_alone(Server, VisitorIp, short_code, location)

SpecRound == Init /\ [][NextRound]_vars

\* Visitors racing on one link: the workers verify a link and interleave
\* between query and commit, with room for one verification more than in
\* Spec.
NextRace ==
    \/ \E link_data \in CreateRequests :
          /\ link_data.short_code # None
          /\ create_link(Server, VisitorIp, 2, link_data, None)
    \/ \E p \in Workers, short_code \in Codes, location \in Locations :
          verify_location_query(p, VisitorIp, short_code, location, MaxLogs + 1)
    \/ \E p \in Workers : verify_commit(p)

SpecRace == Init /\ [][NextRace]_vars

\* One minute of one address: a link is created and then verified from its
\* centre again and again while the clock stands still.
NextRate ==
    \/ \E link_data \in CreateRequests :
          /\ link_data.short_code # None
          /\ create_link(Server, VisitorIp, 2, link_data, None)
    \/ \E short_code \in Codes :
          verify_location_within(Server, VisitorIp, short_code, Centre,
                                 default_limits + 1)

SpecRate == Init /\ [][NextRate]_vars

(***************************************************************************)
(* is_within_radius on its own: the arguments are drawn at the start and   *)
(* the call stores its result.                                             *)
(***************************************************************************)
Radii == {1, 2, 3}

GeoLatitudes == {0, 600} \cup {r * MM + d : r \in Radii, d \in {0 - 1, 0, 1}}

GeoLongitudes == {0, 800}

InitGeo ==
    /\ links = <<>>
    /\ logs = <<>>
    /\ blocked = {}
    /\ blocked_ips = [p \in Workers |-> {}]
    /\ last_update = [p \in Workers |-> 0]
    /\ now = StartTime
    /\ sess = [p \in Workers |-> Idle]
    /\ resp = NoRequest
    /\ users = InitialUsers
    /\ geo \in {[GeoIdle EXCEPT !.visitor_lat = a, !.visitor_lng = b,
                                !.radius_meters = r] :
                    a \in GeoLatitudes, b \in GeoLongitudes, r \in Radii}

GeoCall ==
    /\ ~geo.called
    /\ geo' = LET r == is_within_radius(geo.visitor_lat, geo.visitor_lng,
                                        geo.center_lat, geo.center_lng,
                                        geo.radius_meters)
              IN  [geo EXCEPT !.called = TRUE, !.is_allowed = r.is_allowed,
                              !.distance = r.distance]
    /\ UNCHANGED <<links, logs, blocked, blocked_ips, last_update, now, sess, resp, users>>

SpecGeo == InitGeo /\ [][GeoCall]_vars

\* calculate_distance between any two points of a grid, through the call of
\* is_within_radius.
GridLatitudes == {0 - 3000, 0, 600, 4000}

GridLongitudes == {0 - 800, 0, 800}

InitDist ==
    /\ links = <<>>
    /\ logs = <<>>
    /\ blocked = {}
    /\ blocked_ips = [p \in Workers |-> {}]
    /\ last_update = [p \in Workers |-> 0]
    /\ now = StartTime
    /\ sess = [p \in Workers |-> Idle]
    /\ resp = NoRequest
    /\ users = InitialUsers
    /\ geo \in {[GeoIdle EXCEPT !.visitor_lat = a, !.visitor_lng = b,
                                !.center_lat = c, !.center_lng = d,
                                !.radius_meters = r] :
                    a \in GridLatitudes, b \in GridLongitudes,
                    c \in GridLatitudes, d \in GridLongitudes, r \in {1, 5}}

SpecDist == InitDist /\ [][GeoCall]_vars

(***************************************************************************)
(* The claims.                                                             *)
(***************************************************************************)
\* The link a response is about: the row with the short code of the request
\* in the table ls, 0 when there is none.
LinkOf(ls, r) == FindByShortCode(ls, r.code)

\* A verification that was recorded: verify_location answered 200.
Recorded(r) == r.op = "verify" /\ r.status = 200

\* The body of a response has no field but the detail.
NoBody(r) ==
    /\ r.allowed = None /\ r.target_url = None /\ r.distance = None
    /\ r.radius = None /\ r.message = None /\ r.contact_wechat = None
    /\ r.title = None /\ r.is_active = None /\ r.location_name = None

AllIdle == \A p \in Workers : sess[p].pc = "idle"

\* C1: when N verifications of a link have run concurrently and all have
\* committed, its visit_count is N higher than at its creation (0) and it has
\* N access_logs rows: no increment is lost.
C1_NoLostIncrement ==
    AllIdle => \A id \in DOMAIN links :
                  links[id].visit_count = Cardinality(LogsOf(logs, id))

\* C2: in every committed state of the tables, success_count + denied_count
\* = visit_count for every link.
C2_CountersAddUp ==
    \A id \in DOMAIN links :
        links[id].success_count + links[id].denied_count = links[id].visit_count

\* C3: a verification that reaches the recorder adds 1 to visit_count, adds 1
\* to success_count when allowed and to denied_count when denied and leaves
\* the other of the two alone, and appends one access_logs row with the
\* verdict; so after N verifications run one after another visit_count is N.
C3_RecordsOneVisit ==
    /\ [](\A id \in DOMAIN links :
            links[id].visit_count = Cardinality(LogsOf(logs, id)))
    /\ [][Recorded(resp') =>
            LET id == LinkOf(links, resp')
                granted == resp'.allowed = Some(TRUE)
            IN  /\ id # 0
                /\ links'[id].visit_count = links[id].visit_count + 1
                /\ links'[id].success_count =
                      links[id].success_count + (IF granted THEN 1 ELSE 0)
                /\ links'[id].denied_count =
                      links[id].denied_count + (IF granted THEN 0 ELSE 1)
                /\ Len(logs') = Len(logs) + 1
                /\ SubSeq(logs', 1, Len(logs)) = logs
                /\ logs'[Len(logs')].link_id = id
                /\ logs'[Len(logs')].access_granted = granted]_vars

C3_Witness ==
    /\ Recorded(resp)
    /\ \E id \in DOMAIN links :
          links[id].success_count >= 1 /\ links[id].denied_count >= 1

\* C4: verify on a deleted link answers what verify on a short code without a
\* row answers, whatever the link's active and banned flags are: 404 with the
\* same detail and no other field.
C4_DeletedIsNotFound ==
    [][(resp'.op = "verify" /\ resp'.status \notin {200, 500}
            /\ LinkOf(links, resp') # 0
            /\ links[LinkOf(links, resp')].is_deleted)
        => LET missing == verify_lookup(<<>>, resp'.code)
           IN  /\ resp'.status = 404
               /\ resp'.status = missing.status
               /\ resp'.detail = missing.detail
               /\ NoBody(resp')]_vars

C4_Witness ==
    /\ resp.op = "verify" /\ resp.status = 404
    /\ LinkOf(links, resp) # 0
    /\ links[LinkOf(links, resp)].is_deleted
    /\ links[LinkOf(links, resp)].is_banned

\* C5: a link whose banned flag is set is never admitted by verify: no
\* verdict and no target URL is returned for it.
C5_BannedNeverAdmitted ==
    (resp.op = "verify" /\ LinkOf(links, resp) # 0
        /\ links[LinkOf(links, resp)].is_banned)
    => /\ resp.status # 200
       /\ resp.allowed = None
       /\ resp.target_url = None

\* Whether the expiry time of a link has passed.
Expired(link) == link.expire_at # None /\ now > link.expire_at[1]

\* Whether a link has used up its visits.
Capped(link) ==
    /\ link.max_visits # None
    /\ link.max_visits[1] > 0
    /\ link.visit_count >= link.max_visits[1]

\* C6: verify on a link whose expire_at has passed answers Expired whatever
\* its active and banned flags are, and changes no counter and no log.
C6_ExpiredIsRejected ==
    [][(resp'.op = "verify"
            /\ LinkOf(links, resp') # 0
            /\ ~links[LinkOf(links, resp')].is_deleted
            /\ Expired(links[LinkOf(links, resp')]))
        => /\ resp'.detail = "link_expired"
           /\ resp'.allowed = None
           /\ links' = links
           /\ logs' = logs]_vars

\* C7: verify on a link that is not deleted, active, not expired and at its
\* visit cap answers VisitCapReached: no verdict, no target URL, no counter
\* and no log changes.
C7_CappedIsRejected ==
    [][(resp'.op = "verify"
            /\ LinkOf(links, resp') # 0
            /\ ~links[LinkOf(links, resp')].is_deleted
            /\ links[LinkOf(links, resp')].is_active
            /\ ~Expired(links[LinkOf(links, resp')])
            /\ Capped(links[LinkOf(links, resp')]))
        => /\ resp'.detail = "visit_cap_reached"
           /\ resp'.allowed = None
           /\ resp'.target_url = None
           /\ links' = links
           /\ logs' = logs]_vars

\* C8: the verdict of is_within_radius is distance <= radius, the boundary
\* included: at a distance of exactly the radius the visitor is allowed, one
\* millimetre farther the visitor is denied.
C8_InclusiveBoundary ==
    geo.called =>
        /\ geo.is_allowed <=> (geo.distance <= geo.radius_meters * MM)
        /\ (geo.visitor_lng = geo.center_lng
                /\ geo.visitor_lat - geo.center_lat = geo.radius_meters * MM)
           => geo.is_allowed
        /\ (geo.visitor_lng = geo.center_lng
                /\ geo.visitor_lat - geo.center_lat = geo.radius_meters * MM + 1)
           => ~geo.is_allowed

C8_Witness ==
    /\ geo.called
    /\ geo.distance = geo.radius_meters * MM
    /\ geo.is_allowed

\* C9: a response of verify carries the target URL exactly when it carries
\* allowed = true; a denial and a rejection carry none.
C9_UrlIffAllowed ==
    resp.op = "verify" =>
        ((resp.target_url # None) <=> (resp.allowed = Some(TRUE)))

C9_Witness ==
    /\ Recorded(resp)
    /\ resp.allowed = Some(FALSE)
    /\ resp.target_url = None
    /\ links[LinkOf(links, resp)].target_url # ""

\* A step that is a request whose membership test was made: the clock stands
\* still and the refresh did not raise.
Checked(r) == r.detail # "refresh_failed"

\* C10: a request from an address that is in the blocklist of the middleware
\* it arrives at is answered 403 by the middleware and the route handler does
\* not run: no table changes.
C10_BlockedNeverReachesHandler ==
    [][(now' = now /\ Checked(resp') /\ resp'.ip \in blocked_ips'[Server])
        => /\ resp'.status = 403
           /\ resp'.detail = "ip_blocked"
           /\ NoBody(resp')
           /\ links' = links
           /\ logs' = logs
           /\ blocked' = blocked
           /\ sess' = sess]_vars

C10_Witness ==
    /\ resp.op = "verify" /\ resp.detail = "ip_blocked"
    /\ resp.ip \in blocked_ips[Server]
    /\ \E id \in DOMAIN links : links[id].is_active /\ ~links[id].is_deleted

\* The access_logs rows written for requests of an address.
LogsFrom(lg, ip) == {i \in DOMAIN lg : lg[i].ip_address = ip}

\* C11: verify is under the general ceiling of default_limits requests per
\* minute and address: within one minute (the clock does not advance) no more
\* than default_limits verifications of one address reach the lookup and the
\* counters, so no more than that many are recorded.
C11_VerifyIsRateLimited ==
    \A ip \in IPs : Cardinality(LogsFrom(logs, ip)) <= default_limits

\* C12: at the membership test of every request, the first one included, the
\* cache is the content of blocked_ips as read at last_update, and last_update
\* is at most update_interval before the test: a load stores the table as it
\* is at that instant with the instant, nothing else writes the cache; so an
\* address whose row is older than update_interval is rejected.
C12_CacheIsFresh ==
    /\ [][(now' = now /\ Checked(resp'))
            => now - last_update'[Server] <= update_interval]_vars
    /\ [][IF last_update'[Server] # last_update[Server]
          THEN /\ last_update'[Server] = now
               /\ blocked_ips'[Server] = BlockedAddresses(blocked)
          ELSE blocked_ips'[Server] = blocked_ips[Server]]_vars
    /\ [][(now' = now /\ Checked(resp')
            /\ \E row \in blocked : /\ row.ip_address = resp'.ip
                                    /\ now - row.created_at > update_interval)
            => resp'.detail = "ip_blocked"]_vars

\* An address is rejected whose row the cache got with its second load.
C12_Witness ==
    /\ resp.detail = "ip_blocked"
    /\ \E row \in blocked : /\ row.ip_address = resp.ip
                            /\ now - row.created_at > update_interval
                            /\ last_update[Server] > row.created_at

\* The verifications between their query and their commit after a step.
InFlightAfter == Cardinality({q \in Workers : sess'[q].pc = "loaded"})

\* C13: when the commit of a verification fails the request ends in a server
\* error whose body has no verdict and no target URL, no counter and no log
\* row of the request is stored, and its session is dropped, so nothing of it
\* can be stored later.
C13_FailedCommitStoresNothing ==
    [][(resp'.op = "verify" /\ resp'.status = 500)
        => /\ NoBody(resp')
           /\ links' = links
           /\ logs' = logs
           /\ InFlightAfter = InFlight - 1]_vars

\* A commit fails after another verification of the link was stored.
C13_Witness ==
    /\ resp.op = "verify" /\ resp.status = 500
    /\ LinkOf(links, resp) # 0
    /\ links[LinkOf(links, resp)].visit_count = 1
    /\ Cardinality(LogsOf(logs, LinkOf(links, resp))) = 1

\* C14: no step lowers visit_count, success_count or denied_count of a link,
\* whatever the interleaving of the requests.
C14_CountersNeverDecrease ==
    [][\A id \in DOMAIN links :
          /\ links'[id].visit_count >= links[id].visit_count
          /\ links'[id].success_count >= links[id].success_count
          /\ links'[id].denied_count >= links[id].denied_count]_vars

\* C15: verify applies the lifecycle checks in the order deleted, active,
\* expiry, visit cap and reports the first that matches: deleted and banned
\* is NotFound, inactive and expired is Disabled, active and expired is
\* Expired, active and capped is VisitCapReached, and only a link that
\* matches none gets a verdict.
C15_FirstMatchWins ==
    [][(resp'.op = "verify" /\ LinkOf(links, resp') # 0)
        => LET link == links[LinkOf(links, resp')]
           IN  resp'.detail =
                  IF link.is_deleted THEN "link_not_found"
                  ELSE IF ~link.is_active
                  THEN (IF link.is_banned THEN "link_banned" ELSE "link_disabled")
                  ELSE IF Expired(link) THEN "link_expired"
                  ELSE IF Capped(link) THEN "visit_cap_reached"
                  ELSE ""]_vars

\* C16 as claimed: in every result of verify the message and the contact are
\* present exactly when allowed is false and the link has a contact_wechat.
C16_MessageAndContactIffFallback ==
    Recorded(resp) =>
        LET fallback == /\ resp.allowed = Some(FALSE)
                        /\ links[LinkOf(links, resp)].contact_wechat # None
        IN  /\ (resp.message # None) <=> fallback
            /\ (resp.contact_wechat # None) <=> fallback

\* C16 amended: in every result of verify the contact is present exactly when
\* allowed is false and the link has a contact_wechat, and it is that of the
\* link; the message is present exactly when allowed is false, whether the
\* link has a contact_wechat or not.
C16_ContactIffFallback ==
    Recorded(resp) =>
        LET link == links[LinkOf(links, resp)]
            denied == resp.allowed = Some(FALSE)
        IN  /\ (resp.contact_wechat # None) <=> (denied /\ link.contact_wechat # None)
            /\ denied => resp.contact_wechat = link.contact_wechat
            /\ (resp.message # None) <=> denied

\* A visitor is denied by a link without a contact_wechat: the result has
\* the message and no contact.
C16_Witness ==
    /\ Recorded(resp)
    /\ resp.allowed = Some(FALSE)
    /\ links[LinkOf(links, resp)].contact_wechat = None
    /\ resp.message # None
    /\ resp.contact_wechat = None

\* C17: get_public_link_info changes no table, whatever the state of the
\* link; it answers 404 exactly when the short code has no row or the link is
\* deleted, and otherwise the title, is_active and location_name of the row,
\* for inactive and banned links too; it takes no location.
C17_PublicInfoReadsOnly ==
    [][resp'.op = "public"
        => /\ links' = links /\ logs' = logs /\ blocked' = blocked /\ sess' = sess
           /\ LET id == LinkOf(links, resp')
              IN  IF id = 0 \/ links[id].is_deleted
                  THEN resp'.status = 404 /\ NoBody(resp')
                  ELSE /\ resp'.status = 200
                       /\ resp'.title = links[id].title
                       /\ resp'.is_active = Some(links[id].is_active)
                       /\ resp'.location_name = links[id].location_name
                       /\ resp'.allowed = None /\ resp'.distance = None
                       /\ resp'.target_url = None]_vars

\* The public information of a banned link that has been visited.
C17_Witness ==
    /\ resp.op = "public" /\ resp.status = 200
    /\ resp.is_active = Some(FALSE)
    /\ links[LinkOf(links, resp)].is_banned
    /\ links[LinkOf(links, resp)].visit_count > 0

\* C18: access_logs is append-only: in every step of verifications and link
\* admin requests every row that exists stays, with its id and all its fields,
\* and the rows of a link only grow.
C18_LogIsAppendOnly ==
    [][/\ Len(logs') >= Len(logs)
       /\ SubSeq(logs', 1, Len(logs)) = logs
       /\ \A id \in DOMAIN links : LogsOf(logs, id) \subseteq LogsOf(logs', id)]_vars

\* A link with a log row has been deleted.
C18_Witness ==
    /\ resp.op = "delete" /\ resp.status = 204
    /\ links[resp.link_id].is_deleted
    /\ LogsOf(logs, resp.link_id) # {}

\* C19: no two rows of links, soft-deleted ones included, have the same
\* short_code, also when creates of one code interleave between the existence
\* check and the insert; and no step changes the short_code of a row or
\* removes a row.
C19_ShortCodeIsUnique ==
    /\ [](\A i \in DOMAIN links : \A j \in DOMAIN links :
            i # j => links[i].short_code # links[j].short_code)
    /\ [][/\ Len(links') >= Len(links)
          /\ \A id \in DOMAIN links :
                links'[id].short_code = links[id].short_code]_vars

\* The insert of a create finds the code taken by a link that was created and
\* deleted after the existence check.
C19_Witness ==
    /\ resp.op = "create" /\ resp.detail = "integrity_error"
    /\ LinkOf(links, resp) # 0
    /\ links[LinkOf(links, resp)].is_deleted

\* C20 as claimed: for every verification the distance in the log row and in
\* the response, rounded to 2 decimals, agrees with the verdict: allowed is
\* true exactly when the reported distance <= radius.
C20_ReportedAgreesWithVerdict ==
    Recorded(resp) =>
        LET row == logs[Len(logs)]
        IN  /\ resp.allowed = Some(TRUE)
                  <=> resp.distance[1] <= resp.radius[1] * MM
            /\ row.access_granted
                  <=> row.distance_meters <= resp.radius[1] * MM

\* C20 amended: the log row and the response carry the same distance, the
\* unrounded distance rounded to 2 decimals, at most half a centimetre from
\* it; the verdict is that of the unrounded distance, so an allowed visitor
\* is reported at no more than the radius and a denied visitor at no less
\* than the radius (a visitor less than half a centimetre outside is denied
\* and reported at the radius).
C20_ReportedWithinHalfCentimetre ==
    Recorded(resp) =>
        LET row == logs[Len(logs)]
            link == links[row.link_id]
            distance == calculate_distance(row.visitor_lat, row.visitor_lng,
                                           link.center_lat, link.center_lng)
            reported == row.distance_meters
            radius == link.radius_meters * MM
        IN  /\ resp.distance = Some(reported)
            /\ resp.allowed = Some(row.access_granted)
            /\ reported % 10 = 0
            /\ reported - distance <= 5 /\ distance - reported <= 5
            /\ row.access_granted <=> distance <= radius
            /\ row.access_granted => reported <= radius
            /\ ~row.access_granted => reported >= radius

\* A visitor 4 mm outside the radius is denied and reported at the radius.
C20_Witness ==
    /\ Recorded(resp)
    /\ resp.allowed = Some(FALSE)
    /\ resp.distance = Some(resp.radius[1] * MM)
    /\ logs[Len(logs)].visitor_lat = resp.radius[1] * MM + 4

C23_RestoreSetsTwoFlags ==
    [][resp'.op = "restore"
        => LET id == resp'.link_id
           IN  /\ logs' = logs
               /\ resp'.status = 200
                     <=> (/\ id \in DOMAIN links
                          /\ links[id].is_deleted
                          /\ MayAccess(links[id], resp'.user))
               /\ IF resp'.status = 200
                  THEN links' = [links EXCEPT ![id] =
                                    [@ EXCEPT !.is_deleted = FALSE,
                                              !.is_active = TRUE]]
                  ELSE links' = links
               /\ (id \in DOMAIN links /\ ~links[id].is_deleted)
                     => resp'.status \in {400, 403}]_vars

\* A banned, visited link with a cap is restored.
C23_Witness ==
    /\ resp.op = "restore" /\ resp.status = 200
    /\ links[resp.link_id].is_banned
    /\ links[resp.link_id].visit_count > 0
    /\ links[resp.link_id].max_visits # None
    /\ links[resp.link_id].is_active /\ ~links[resp.link_id].is_deleted

\* C24: delete of a link that is not deleted, by a super admin who is not its
\* creator, sets is_banned true and is_active false and leaves is_deleted
\* false; by its creator, a super admin included, it sets is_deleted true and
\* is_active false and leaves is_banned; nothing else of the row changes and
\* no row of links or access_logs is removed.
C24_DeleteBansOrSoftDeletes ==
    [][resp'.op = "delete"
        => LET id == resp'.link_id
               u == resp'.user
           IN  /\ logs' = logs
               /\ Len(links') = Len(links)
               /\ resp'.status = 204
                     <=> (/\ id \in DOMAIN links
                          /\ ~links[id].is_deleted
                          /\ MayAccess(links[id], u))
               /\ IF resp'.status # 204
                  THEN links' = links
                  ELSE IF role(u) = super_admin /\ links[id].created_by # u
                  THEN /\ links' = [links EXCEPT ![id] =
                                       [@ EXCEPT !.is_banned = TRUE,
                                                 !.is_active = FALSE]]
                       /\ ~links'[id].is_deleted
                  ELSE /\ links' = [links EXCEPT ![id] =
                                       [@ EXCEPT !.is_deleted = TRUE,
                                                 !.is_active = FALSE]]
                       /\ links'[id].is_banned = links[id].is_banned]_vars

\* The creator soft-deletes a link that is banned and has a log row.
C24_Witness ==
    /\ resp.op = "delete" /\ resp.status = 204
    /\ role(resp.user) # super_admin
    /\ links[resp.link_id].is_deleted /\ links[resp.link_id].is_banned
    /\ LogsOf(logs, resp.link_id) # {}

\* C25: the cache is written by the load only, which is due, stores the whole
\* table in one step and sets last_update with it; a load that fails writes
\* neither; the membership test is made on the whole set; and blocked_ips,
\* the table, is written by block_ip and unblock_ip of a super admin only,
\* never by the middleware or the link routes.
C25_CacheWrittenByLoadOnly ==
    /\ [][(blocked_ips' # blocked_ips \/ last_update' # last_update)
            => /\ NeedsUpdate(Server)
               /\ Checked(resp')
               /\ now' = now
               /\ blocked_ips'[Server] = BlockedAddresses(blocked)
               /\ last_update'[Server] = now]_vars
    /\ [][resp'.detail = "refresh_failed"
            => /\ blocked_ips' = blocked_ips
               /\ last_update' = last_update
               /\ blocked' = blocked /\ links' = links /\ logs' = logs]_vars
    /\ [][(now' = now /\ Checked(resp'))
            => (resp'.detail = "ip_blocked"
                  <=> resp'.ip \in IF NeedsUpdate(Server)
                                   THEN BlockedAddresses(blocked)
                                   ELSE blocked_ips[Server])]_vars
    /\ [][blocked' # blocked
            => /\ resp'.op \in {"block_ip", "unblock_ip"}
               /\ resp'.status \in {201, 204}
               /\ role(resp'.user) = super_admin]_vars

\* A load is due with the cache behind the table, and it fails.
C25_Witness ==
    /\ resp.detail = "refresh_failed"
    /\ now - last_update[Server] > update_interval
    /\ last_update[Server] > 0
    /\ blocked_ips[Server] # BlockedAddresses(blocked)

\* C26: only a super admin clears a ban: a step in which is_banned of a link
\* goes from true to false is an update of that link by a super admin that
\* sets is_active true; an update by another user that asks to enable a
\* banned link is rejected and enables nothing; create, delete, restore and
\* verify never clear is_banned.
C26_OnlySuperAdminUnbans ==
    /\ [][\A id \in DOMAIN links :
            (links[id].is_banned /\ ~links'[id].is_banned)
            => /\ resp'.op = "update" /\ resp'.status = 200
               /\ resp'.link_id = id
               /\ role(resp'.user) = super_admin
               /\ links'[id].is_active]_vars
    /\ [][(resp'.op = "update" /\ role(resp'.user) # super_admin)
            => \A id \in DOMAIN links :
                  (links[id].is_banned /\ ~links[id].is_active)
                  => (links'[id].is_banned /\ ~links'[id].is_active)]_vars
    /\ [][resp'.detail = "link_banned" /\ resp'.op = "update"
            => /\ role(resp'.user) # super_admin
               /\ links[resp'.link_id].is_banned
               /\ links' = links]_vars

\* The creator of a banned link asks to enable it and is rejected.
C26_Witness ==
    /\ resp.op = "update" /\ resp.status = 403 /\ resp.detail = "link_banned"
    /\ links[resp.link_id].created_by = resp.user
    /\ links[resp.link_id].is_banned /\ ~links[resp.link_id].is_active

\* C27: a verification that is rejected before the geofence verdict (no row
\* with the short code, link deleted, link inactive or banned) leaves the
\* three counters of every link as they are and appends no log row.
C27_RejectionRecordsNothing ==
    [][(resp'.op = "verify" /\ resp'.status \in {403, 404})
        => /\ resp'.detail \in {"link_not_found", "link_disabled", "link_banned"}
           /\ logs' = logs
           /\ Len(links') = Len(links)
           /\ \A id \in DOMAIN links :
                 /\ links'[id].visit_count = links[id].visit_count
                 /\ links'[id].success_count = links[id].success_count
                 /\ links'[id].denied_count = links[id].denied_count
           /\ sess' = sess]_vars

\* A verification of a visited, banned link is rejected.
C27_Witness ==
    /\ resp.op = "verify" /\ resp.status = 403 /\ resp.detail = "link_banned"
    /\ links[LinkOf(links, resp)].visit_count > 0
    /\ LogsOf(logs, LinkOf(links, resp)) # {}

C29_DeletedIsInactive ==
    \A id \in DOMAIN links : links[id].is_deleted => ~links[id].is_active

\* C30: whatever the sequence or interleaving of user update and user
\* delete requests, at least one account with the role super_admin is
\* active.
C30_ActiveSuperAdminRemains ==
    \E u \in DOMAIN users : users[u].role = super_admin /\ users[u].is_active

====
